---------------------------- MODULE Spec2Model ----------------------------
(***************************************************************************)
(* A model of src/index.js: the retail question-answering backend.         *)
(*                                                                         *)
(* Text is modelled character by character: a JavaScript string is a       *)
(* sequence of one-character strings (the backtick is written BT), so      *)
(* that includes(), trim(), toLowerCase() and the two regular expressions  *)
(* of extractSql are computed rather than assumed.  JavaScript's null and  *)
(* undefined are the one-element sequences Null and Undefined, which are   *)
(* no text.                                                                *)
(***************************************************************************)
EXTENDS Naturals, Sequences, FiniteSets

VARIABLES
    catalog,     \* sqlite_master: the table names, in creation order
    tables,      \* the rows of each table, in insertion order
    initPc,      \* statements of initializeDatabase run by the current process
    starts,      \* process starts against the store file so far
    req,         \* per request: the handler's locals and position
    pureText,    \* input of a pure helper applied on its own
    pureSql,     \* what extractSql returned for it
    pureChart,   \* what suggestChartType returned for it
    purePc       \* "off", "input", "extracted" or "charted"

vars ==
    <<catalog, tables, initPc, starts, req, pureText, pureSql, pureChart, purePc>>

storeVars == <<catalog, tables, initPc, starts>>
pureVars == <<pureText, pureSql, pureChart, purePc>>

-----------------------------------------------------------------------------
(* Bounds of the model *)

MaxRequests == 1      \* POST /api/analyze requests in flight
MaxStarts == 4        \* process starts against one store file
MaxFrags == 3         \* fragments concatenated into one input text

-----------------------------------------------------------------------------
(* JavaScript values and string primitives *)

Null == <<"NULL">>
Undefined == <<"UNDEFINED">>
BT == "bt"

\* !x for a string-or-null value
Falsy(x) == x \in {Null, Undefined, <<>>}

Min(S) == CHOOSE x \in S : \A y \in S : x <= y
Max(S) == CHOOSE x \in S : \A y \in S : x >= y

UpperAlpha ==
    <<"A","B","C","D","E","F","G","H","I","J","K","L","M",
      "N","O","P","Q","R","S","T","U","V","W","X","Y","Z">>
LowerAlpha ==
    <<"a","b","c","d","e","f","g","h","i","j","k","l","m",
      "n","o","p","q","r","s","t","u","v","w","x","y","z">>

LowerChar(c) ==
    IF \E i \in 1..26 : UpperAlpha[i] = c
    THEN LowerAlpha[CHOOSE i \in 1..26 : UpperAlpha[i] = c]
    ELSE c

\* String.prototype.toLowerCase
toLowerCase(s) == [i \in 1..Len(s) |-> LowerChar(s[i])]

\* pat occurs in s starting at position i (1-based)
MatchAt(s, i, pat) ==
    /\ i >= 1
    /\ i + Len(pat) - 1 <= Len(s)
    /\ SubSeq(s, i, i + Len(pat) - 1) = pat

\* String.prototype.includes
includes(s, pat) == \E i \in 1..(Len(s) + 1) : MatchAt(s, i, pat)

WhiteSpace == {" ", "\n", "\t", "\r"}

\* String.prototype.trim
trim(s) ==
    LET keep == {i \in 1..Len(s) : s[i] \notin WhiteSpace}
    IN  IF keep = {} THEN <<>> ELSE SubSeq(s, Min(keep), Max(keep))

-----------------------------------------------------------------------------
(* extractSql, lines 218-222 *)

FenceOpen == <<BT,BT,BT,"s","q","l","\n">>          \* ```sql\n
FenceClose == <<"\n",BT,BT,BT>>                     \* \n```
SelectSp == <<"s","e","l","e","c","t"," ">>         \* SELECT<space>, folded
From == <<"f","r","o","m">>                         \* FROM, folded
LineTerminators == {"\n", "\r"}                     \* what . does not match

NoMatch == [m0 |-> Null, m1 |-> Null]

\* text.match(/```sql\n([\s\S]*?)\n```/): the leftmost start that can be
\* completed, then the nearest closing fence; m0 the match, m1 the group
FenceMatch(text) ==
    LET closes(i) == {j \in (i + Len(FenceOpen))..Len(text) :
                          MatchAt(text, j, FenceClose)}
        opens == {i \in 1..Len(text) :
                      MatchAt(text, i, FenceOpen) /\ closes(i) # {}}
    IN  IF opens = {} THEN NoMatch
        ELSE LET i == Min(opens)
                 j == Min(closes(i))
             IN  [m0 |-> SubSeq(text, i, j + Len(FenceClose) - 1),
                  m1 |-> SubSeq(text, i + Len(FenceOpen), j - 1)]

\* text.match(/SELECT .*?FROM/i): no capture group, so m1 is undefined
InlineMatch(text) ==
    LET low == toLowerCase(text)
        ends(i) == {j \in (i + Len(SelectSp))..Len(text) :
                        /\ MatchAt(low, j, From)
                        /\ \A k \in (i + Len(SelectSp))..(j - 1) :
                               text[k] \notin LineTerminators}
        begins == {i \in 1..Len(text) :
                       MatchAt(low, i, SelectSp) /\ ends(i) # {}}
    IN  IF begins = {} THEN NoMatch
        ELSE LET i == Min(begins)
                 j == Min(ends(i))
             IN  [m0 |-> SubSeq(text, i, j + Len(From) - 1),
                  m1 |-> Undefined]

\* a || b on match results: the first one that matched
OrMatch(a, b) == IF a # NoMatch THEN a ELSE b

extractSql(text) ==
    IF Falsy(text) THEN Null
    ELSE LET sqlMatch == OrMatch(FenceMatch(text), InlineMatch(text))
         IN  IF sqlMatch = NoMatch THEN Null
             ELSE IF Falsy(sqlMatch.m1) THEN sqlMatch.m0 ELSE sqlMatch.m1

-----------------------------------------------------------------------------
(* suggestChartType, lines 224-230 *)

Trend == <<"t","r","e","n","d">>
Compare == <<"c","o","m","p","a","r","e">>
Percentage == <<"p","e","r","c","e","n","t","a","g","e">>
Proportion == <<"p","r","o","p","o","r","t","i","o","n">>

\* the same keywords with "compare" tried before "trend"
suggestChartType_CompareFirst(insights) ==
    IF Falsy(insights) THEN "bar"
    ELSE IF includes(insights, Compare) THEN "bar"
    ELSE IF includes(insights, Trend) THEN "line"
    ELSE IF includes(insights, Percentage) \/ includes(insights, Proportion)
         THEN "pie"
    ELSE "bar"

suggestChartType(insights) ==
    IF Falsy(insights) THEN "bar"
    ELSE IF includes(insights, Trend) THEN "line"
    ELSE IF includes(insights, Compare) THEN "bar"
    ELSE IF includes(insights, Percentage) \/ includes(insights, Proportion)
         THEN "pie"
    ELSE "bar"

-----------------------------------------------------------------------------
(* The store: initializeDatabase, lines 33-86 *)

Customers == "customers"
Products == "products"
Orders == "orders"
OrderItems == "order_items"

\* the columns each CREATE TABLE declares, as PRAGMA table_info lists them
TableColumns(t) ==
    CASE t = Customers ->
           <<[name |-> "id", type |-> "TEXT"], [name |-> "name", type |-> "TEXT"],
             [name |-> "email", type |-> "TEXT"], [name |-> "region", type |-> "TEXT"],
             [name |-> "signup_date", type |-> "TEXT"]>>
      [] t = Products ->
           <<[name |-> "id", type |-> "TEXT"], [name |-> "name", type |-> "TEXT"],
             [name |-> "category", type |-> "TEXT"], [name |-> "price", type |-> "REAL"],
             [name |-> "cost", type |-> "REAL"]>>
      [] t = Orders ->
           <<[name |-> "id", type |-> "TEXT"], [name |-> "customer_id", type |-> "TEXT"],
             [name |-> "order_date", type |-> "TEXT"],
             [name |-> "total_amount", type |-> "REAL"],
             [name |-> "status", type |-> "TEXT"]>>
      [] t = OrderItems ->
           <<[name |-> "order_id", type |-> "TEXT"],
             [name |-> "product_id", type |-> "TEXT"],
             [name |-> "quantity", type |-> "INTEGER"],
             [name |-> "price", type |-> "REAL"]>>

\* the column declared PRIMARY KEY, 0 when the table declares none
PrimaryKey(t) == IF t = OrderItems THEN 0 ELSE 1

SeedRows(t) ==
    CASE t = Customers ->
           <<<<"C001", "John Smith", "john@example.com", "North", "2023-01-15">>,
             <<"C002", "Sarah Johnson", "sarah@example.com", "South", "2023-02-20">>>>
      [] t = Products ->
           <<<<"P001", "Wireless Headphones", "Electronics", "99.99", "45.00">>,
             <<"P002", "Smart Watch", "Electronics", "199.99", "120.00">>,
             <<"P003", "Cotton T-Shirt", "Apparel", "29.99", "12.50">>>>
      [] t = Orders ->
           <<<<"O001", "C001", "2023-05-15", "129.98", "Completed">>,
             <<"O002", "C002", "2023-05-16", "199.99", "Completed">>>>
      [] t = OrderItems ->
           <<<<"O001", "P001", "1", "99.99">>,
             <<"O001", "P003", "1", "29.99">>,
             <<"O002", "P002", "1", "199.99">>>>

\* the statements db.serialize queues, in order
Statements ==
    <<[op |-> "create", table |-> Customers],
      [op |-> "create", table |-> Products],
      [op |-> "create", table |-> Orders],
      [op |-> "create", table |-> OrderItems],
      [op |-> "insert", table |-> Customers],
      [op |-> "insert", table |-> Products],
      [op |-> "insert", table |-> Orders],
      [op |-> "insert", table |-> OrderItems]>>

\* INSERT OR IGNORE of one row: skipped when it repeats a primary key
InsertRowOrIgnore(rows, row, pk) ==
    IF pk # 0 /\ \E i \in 1..Len(rows) : rows[i][pk] = row[pk]
    THEN rows
    ELSE Append(rows, row)

RECURSIVE InsertOrIgnore(_, _, _)
InsertOrIgnore(rows, new, pk) ==
    IF new = <<>> THEN rows
    ELSE InsertOrIgnore(InsertRowOrIgnore(rows, Head(new), pk), Tail(new), pk)

\* CREATE TABLE IF NOT EXISTS
CreateIfNotExists(cat, tbl, t) ==
    IF t \in DOMAIN tbl THEN [catalog |-> cat, tables |-> tbl]
    ELSE [catalog |-> Append(cat, t),
          tables |-> [u \in DOMAIN tbl \cup {t} |->
                          IF u = t THEN <<>> ELSE tbl[u]]]

\* one statement run against the store
Execute(cat, tbl, stmt) ==
    IF stmt.op = "create" THEN CreateIfNotExists(cat, tbl, stmt.table)
    ELSE IF stmt.table \notin DOMAIN tbl THEN [catalog |-> cat, tables |-> tbl]
    ELSE [catalog |-> cat,
          tables |-> [tbl EXCEPT ![stmt.table] =
                         InsertOrIgnore(@, SeedRows(stmt.table),
                                        PrimaryKey(stmt.table))]]

EmptyTables == [t \in {} |-> <<>>]

\* the next queued statement of initializeDatabase runs
initializeDatabase ==
    /\ initPc < Len(Statements)
    /\ LET after == Execute(catalog, tables, Statements[initPc + 1])
       IN  /\ catalog' = after.catalog
           /\ tables' = after.tables
    /\ initPc' = initPc + 1
    /\ UNCHANGED <<starts, req, pureVars>>

\* the process is started again on the same store file (lines 19-26)
ProcessStart ==
    /\ starts < MaxStarts
    /\ starts' = starts + 1
    /\ initPc' = 0
    /\ UNCHANGED <<catalog, tables, req, pureVars>>

-----------------------------------------------------------------------------
(* POST /api/analyze, lines 98-185, and getSchemaInfo, lines 188-216 *)

Requests == 1..MaxRequests

\* a truthy question that is no string (a JSON number)
NotAString == <<"NUMBER">>

\* the bodies a client may post: no question, "", " ab ", "abc", a number
Questions ==
    {Undefined, <<>>, <<" ", "a", "b", " ">>, <<"a", "b", "c">>, NotAString}

ValidationMessage == "Please ask a complete business question"
QueryErrorMessage == "Error executing query"
StoreErrorMessage == "SQLITE_ERROR"
UpstreamErrorMessage == "completion service error"
TrimTypeError == "question.trim is not a function"
IncludesTypeError == "Cannot read properties of null (reading 'includes')"

Sentinel == <<"P","l","e","a","s","e"," ","a","s","k"," ","a","b","o","u","t">>
Select == <<"s","e","l","e","c","t">>
ChartNull == "null"

\* what the SQL-generation completion may say
RefusalText ==                      \* Sorry. Please ask about sales
    <<"S","o","r","r","y","."," ">> \o Sentinel \o <<" ","s","a","l","e","s">>
FencedSelectText ==                 \* ```sql\nSELECT 1\n```
    FenceOpen \o <<"S","E","L","E","C","T"," ","1">> \o FenceClose
FencedDropText ==                   \* ```sql\nDROP x\n```
    FenceOpen \o <<"D","R","O","P"," ","x">> \o FenceClose
ProseText == <<"n","o"," ","s","q","l">>
SqlCompletionTexts ==
    {RefusalText, FencedSelectText, FencedDropText, ProseText, Null}

\* what the insight-generation completion may say
InsightTexts ==
    {<<"a"," ">> \o Trend \o <<" ","t","o"," ">> \o Compare,
     Proportion, <<"T","r","e","n","d">>, Null}

\* what the store may return for a query it accepts
RowSets == {<<>>, <<[region |-> "North", total |-> "129.98"]>>}

NoCalls == [catalog |-> 0, pragma |-> 0, query |-> 0, sqlgen |-> 0, insight |-> 0]

IdleRequest ==
    [pc |-> "idle", question |-> Undefined,
     tblNames |-> <<>>, pending |-> {}, schemaInfo |-> <<>>, tablesProcessed |-> 0,
     responseText |-> Null, generatedSql |-> Null, data |-> <<>>,
     logged |-> <<>>, calls |-> NoCalls, responses |-> <<>>]

\* res.status(status).json(body); the handler is over
Respond(rec, status, body) ==
    [rec EXCEPT !.pc = "done",
                !.pending = IF rec.pc = "pragma_wait" THEN @ ELSE {},
                !.responses = Append(@, [status |-> status, body |-> body])]

\* the catch block, lines 178-184 (details, the stack trace, is left out)
Fault(rec, message) ==
    Respond([rec EXCEPT !.logged = Append(@, [tag |-> "Error:", err |-> message])],
            500, [error |-> message])

\* the length test without the trim
InvalidQuestion_NoTrim(question) == Falsy(question) \/ Len(question) < 3

\* line 103, reached with a question that has a trim method
InvalidQuestion(question) == Falsy(question) \/ Len(trim(question)) < 3

\* line 103 throws: question is truthy and has no trim method
ValidationThrows(question) == ~Falsy(question) /\ question = NotAString

\* the sentinel looked for at the start of the text only
IsRefusal_StartsWith(responseText) == MatchAt(responseText, 1, Sentinel)

\* line 129
IsRefusal(responseText) == includes(responseText, Sentinel)

\* any candidate is run, whatever it says
ShouldExecute_AnyCandidate(generatedSql) == ~Falsy(generatedSql)

\* line 142
ShouldExecute(generatedSql) ==
    ~Falsy(generatedSql) /\ includes(toLowerCase(generatedSql), Select)

\* the store's own error is passed on
QueryRejection_Leak(err) == err

\* line 147: what the caller is told when the store rejects the query
QueryRejection(err) == QueryErrorMessage

\* the refusal response, lines 130-135
RefusalBody(responseText) ==
    [insights |-> responseText, data |-> <<>>, sql |-> Null, chartType |-> ChartNull]

\* the response of lines 171-176
AnalysisBody(generatedSql, data, insights) ==
    [sql |-> generatedSql, data |-> data, insights |-> insights,
     chartType |-> suggestChartType(insights)]

Called(rec, what) == [rec EXCEPT !.calls[what] = @ + 1]

\* lines 99-108 and 189-190: validation, then the catalog read is issued
Analyze(r, question) ==
    /\ req[r].pc = "idle"
    /\ LET rec == [req[r] EXCEPT !.question = question]
       IN  req' = [req EXCEPT ![r] =
               IF ValidationThrows(question) THEN Fault(rec, TrimTypeError)
               ELSE IF InvalidQuestion(question)
                    THEN Respond(rec, 400, [error |-> ValidationMessage])
               ELSE [Called(rec, "catalog") EXCEPT !.pc = "catalog_wait"]]
    /\ UNCHANGED <<storeVars, pureVars>>

\* lines 190-213: the catalog read calls back; one PRAGMA is issued per table
CatalogCallback(r, err) ==
    /\ req[r].pc = "catalog_wait"
    /\ req' = [req EXCEPT ![r] =
           IF err THEN Fault(@, StoreErrorMessage)
           ELSE [@ EXCEPT !.pc = "pragma_wait",
                          !.tblNames = catalog,
                          !.pending = 1..Len(catalog),
                          !.schemaInfo = <<>>,
                          !.tablesProcessed = 0,
                          !.calls.pragma = @ + Len(catalog)]]
    /\ UNCHANGED <<storeVars, pureVars>>

\* lines 197-212 for one callback that runs while the promise is unsettled
SchemaStep(rec, i, err) ==
    IF err THEN Fault(rec, StoreErrorMessage)
    ELSE LET pushed == Append(rec.schemaInfo,
                              [table |-> rec.tblNames[i],
                               columns |-> TableColumns(rec.tblNames[i])])
             n == rec.tablesProcessed + 1
             next == [rec EXCEPT !.schemaInfo = pushed, !.tablesProcessed = n]
         IN  IF n = Len(rec.tblNames)
             THEN [Called(next, "sqlgen") EXCEPT !.pc = "sqlgen_wait"]
             ELSE next

\* a PRAGMA table_info callback runs; the reads complete in any order.  After
\* a rejection the remaining callbacks still run, and nothing sees what they do.
PragmaCallback(r, i, err) ==
    /\ i \in req[r].pending
    /\ req' = [req EXCEPT ![r] =
           LET rec == [@ EXCEPT !.pending = @ \ {i}]
           IN  IF rec.pc = "pragma_wait" THEN SchemaStep(rec, i, err) ELSE rec]
    /\ UNCHANGED <<storeVars, pureVars>>

\* lines 126-153 once the first completion returned responseText
AfterSqlCompletion(rec0, responseText) ==
    LET rec == [rec0 EXCEPT !.responseText = responseText,
                            !.tblNames = <<>>, !.schemaInfo = <<>>,
                            !.tablesProcessed = 0]
    IN  IF responseText = Null THEN Fault(rec, IncludesTypeError)
        ELSE IF IsRefusal(responseText)
             THEN Respond(rec, 200, RefusalBody(responseText))
        ELSE LET generatedSql == extractSql(responseText)
                 got == [rec EXCEPT !.generatedSql = generatedSql]
             IN  IF ShouldExecute(generatedSql)
                 THEN [Called(got, "query") EXCEPT !.pc = "query_wait"]
                 ELSE [Called(got, "insight") EXCEPT !.pc = "insight_wait"]

\* the SQL-generation completion call returns or throws (lines 111-153)
SqlCompletion(r, throws, responseText) ==
    /\ req[r].pc = "sqlgen_wait"
    /\ req' = [req EXCEPT ![r] =
           IF throws THEN Fault(@, UpstreamErrorMessage)
           ELSE AfterSqlCompletion(@, responseText)]
    /\ UNCHANGED <<storeVars, pureVars>>

\* db.all(generatedSql) calls back (lines 144-156)
QueryCallback(r, err, rows) ==
    /\ req[r].pc = "query_wait"
    /\ req' = [req EXCEPT ![r] =
           IF err
           THEN Fault([@ EXCEPT !.logged =
                           Append(@, [tag |-> "SQL Error:", err |-> StoreErrorMessage])],
                      QueryRejection(StoreErrorMessage))
           ELSE [Called(@, "insight") EXCEPT !.pc = "insight_wait",
                                             !.data = rows]]
    /\ UNCHANGED <<storeVars, pureVars>>

\* the insight completion call returns or throws (lines 156-176)
InsightCompletion(r, throws, insights) ==
    /\ req[r].pc = "insight_wait"
    /\ req' = [req EXCEPT ![r] =
           IF throws THEN Fault(@, UpstreamErrorMessage)
           ELSE Respond(@, 200, AnalysisBody(@.generatedSql, @.data, insights))]
    /\ UNCHANGED <<storeVars, pureVars>>

-----------------------------------------------------------------------------
(* The server: one process start, requests served while the store is seeded *)
(*                                                                         *)
(* app.listen (line 233) does not wait for initializeDatabase, so a        *)
(* request's store calls may run before, between or after its statements.  *)
(* Requests share nothing but the store, which the handler only reads      *)
(* unless the generated SQL says otherwise.                                *)

Init ==
    /\ catalog = <<>>
    /\ tables = EmptyTables
    /\ initPc = 0
    /\ starts = 1
    /\ req = [r \in Requests |-> IdleRequest]
    /\ pureText = <<>>
    /\ pureSql = Null
    /\ pureChart = "none"
    /\ purePc = "off"

RequestStep(r) ==
    \/ \E q \in Questions : Analyze(r, q)
    \/ \E err \in BOOLEAN : CatalogCallback(r, err)
    \/ \E i \in req[r].pending, err \in BOOLEAN : PragmaCallback(r, i, err)
    \/ \E t \in SqlCompletionTexts : SqlCompletion(r, FALSE, t)
    \/ SqlCompletion(r, TRUE, Null)
    \/ \E rows \in RowSets : QueryCallback(r, FALSE, rows)
    \/ QueryCallback(r, TRUE, <<>>)
    \/ \E t \in InsightTexts : InsightCompletion(r, FALSE, t)
    \/ InsightCompletion(r, TRUE, Null)

Next ==
    \/ initializeDatabase
    \/ \E r \in Requests : RequestStep(r)

Spec == Init /\ [][Next]_vars

\* store calls call back and completion calls return or throw
Progress(r) ==
    \/ \E err \in BOOLEAN : CatalogCallback(r, err)
    \/ \E i \in req[r].pending, err \in BOOLEAN : PragmaCallback(r, i, err)
    \/ \E t \in SqlCompletionTexts : SqlCompletion(r, FALSE, t)
    \/ SqlCompletion(r, TRUE, Null)
    \/ \E rows \in RowSets : QueryCallback(r, FALSE, rows)
    \/ QueryCallback(r, TRUE, <<>>)
    \/ \E t \in InsightTexts : InsightCompletion(r, FALSE, t)
    \/ InsightCompletion(r, TRUE, Null)

FairSpec ==
    /\ Spec
    /\ WF_vars(initializeDatabase)
    /\ \A r \in Requests : WF_vars(Progress(r))

-----------------------------------------------------------------------------
(* The store file across process starts, no request in flight *)

NextSeed == initializeDatabase \/ ProcessStart

SpecSeed == Init /\ [][NextSeed]_vars

-----------------------------------------------------------------------------
(* extractSql and suggestChartType applied to texts built from fragments *)

InlineStatement ==                  \* SELECT a FROM b
    <<"S","E","L","E","C","T"," ","a"," ","F","R","O","M"," ","b">>

Fragments ==
    {FenceOpen, FenceClose, InlineStatement,
     <<"S","E","L","E","C","T"," ","1">>, <<" ","f","r","o","m"," ","b">>,
     <<"\n">>, <<" ","x"," ">>,
     Trend, <<"T","r","e","n","d">>, Compare, Percentage, Proportion}

RECURSIVE TextsOf(_)
TextsOf(n) ==
    IF n = 0 THEN {<<>>}
    ELSE LET shorter == TextsOf(n - 1)
         IN  shorter \cup {t \o f : t \in shorter, f \in Fragments}

PureTexts == TextsOf(MaxFrags) \cup {Null}

InitPure ==
    /\ catalog = <<>>
    /\ tables = EmptyTables
    /\ initPc = 0
    /\ starts = 1
    /\ req = [r \in Requests |-> IdleRequest]
    /\ pureText \in PureTexts
    /\ pureSql = Null
    /\ pureChart = "none"
    /\ purePc = "input"

ApplyExtractSql ==
    /\ purePc = "input"
    /\ pureSql' = extractSql(pureText)
    /\ purePc' = "extracted"
    /\ UNCHANGED <<storeVars, req, pureText, pureChart>>

\* the chart type as the response of lines 171-176 carries it
ApplySuggestChartType ==
    /\ purePc = "input"
    /\ pureChart' = AnalysisBody(Null, <<>>, pureText).chartType
    /\ purePc' = "charted"
    /\ UNCHANGED <<storeVars, req, pureText, pureSql>>

NextPure == ApplyExtractSql \/ ApplySuggestChartType

SpecPure == InitPure /\ [][NextPure]_vars

-----------------------------------------------------------------------------
(* Properties *)

Sent(rec, status, body) == rec.responses = <<[status |-> status, body |-> body]>>

\* the question is absent, or is a string that trims to fewer than 3 characters
QuestionTooShort(q) ==
    \/ q \in {Undefined, Null}
    \/ q # NotAString /\ Len(trim(q)) < 3

\* C1: a POST /api/analyze request whose question is absent or trims to fewer
\* than 3 characters is answered 400 with the fixed validation message, and no
\* store call and no completion call is made for it.
C1_ShortQuestionRejected ==
    \A r \in Requests :
        (req[r].pc # "idle" /\ QuestionTooShort(req[r].question)) =>
            /\ req[r].pc = "done"
            /\ Sent(req[r], 400, [error |-> ValidationMessage])
            /\ req[r].calls = NoCalls

\* a question of four characters that trims to two was rejected
C1_Witness ==
    \E r \in Requests :
        /\ req[r].question = <<" ", "a", "b", " ">>
        /\ req[r].pc = "done"
        /\ Sent(req[r], 400, [error |-> ValidationMessage])

\* the SQL-generation completion returned a text that holds the sentinel
Refused(rec) == rec.responseText # Null /\ includes(rec.responseText, Sentinel)

\* C2: when the SQL-generation completion text holds "Please ask about", the
\* request ends with a 200 response with data [], sql null, chartType null and
\* insights the raw completion text; no query is run and no insight completion
\* is asked for.
C2_RefusalShortCircuits ==
    \A r \in Requests :
        Refused(req[r]) =>
            /\ req[r].pc = "done"
            /\ Sent(req[r], 200,
                    [insights |-> req[r].responseText, data |-> <<>>,
                     sql |-> Null, chartType |-> ChartNull])
            /\ req[r].calls.query = 0
            /\ req[r].calls.insight = 0

\* a refusal whose sentinel is not at the start of the text was answered
C2_Witness ==
    \E r \in Requests :
        /\ req[r].responseText = RefusalText
        /\ req[r].pc = "done"
        /\ Len(req[r].responses) = 1
        /\ req[r].responses[1].status = 200

\* text holds ```sql, a newline, an interior, a newline and ```
HasFencedBlock(text) ==
    \E i \in 1..Len(text), j \in 1..Len(text) :
        /\ MatchAt(text, i, FenceOpen)
        /\ j >= i + Len(FenceOpen)
        /\ MatchAt(text, j, FenceClose)

\* text holds SELECT, a space, then FROM later on the same line, in any case
HasSelectFrom(text) ==
    \E i \in 1..Len(text), j \in 1..Len(text) :
        /\ MatchAt(toLowerCase(text), i, SelectSp)
        /\ j >= i + Len(SelectSp)
        /\ MatchAt(toLowerCase(text), j, From)
        /\ \A k \in (i + Len(SelectSp))..(j - 1) : text[k] \notin LineTerminators

\* the interior of the first fenced block of text
FirstFencedInterior(text) ==
    LET i == Min({a \in 1..Len(text) :
                     /\ MatchAt(text, a, FenceOpen)
                     /\ \E b \in (a + Len(FenceOpen))..Len(text) :
                            MatchAt(text, b, FenceClose)})
        j == Min({b \in (i + Len(FenceOpen))..Len(text) :
                     MatchAt(text, b, FenceClose)})
    IN  SubSeq(text, i + Len(FenceOpen), j - 1)

\* C3: for a text with no fenced block that is the inline statement
\* SELECT a FROM b, extractSql returns SELECT a FROM b; for a text with neither
\* a fenced block nor a SELECT ... FROM fragment it returns null.
C3_InlineStatementReturned ==
    (purePc = "extracted" /\ pureText # Null /\ ~HasFencedBlock(pureText)) =>
        /\ pureText = InlineStatement => pureSql = InlineStatement
        /\ ~HasSelectFrom(pureText) => pureSql = Null

\* what holds of the inline form: the match ends with FROM, and a text with
\* neither pattern gives null
InlineMatchEndsAtFrom ==
    (purePc = "extracted" /\ pureText # Null /\ ~HasFencedBlock(pureText)) =>
        /\ pureText = InlineStatement =>
               pureSql = <<"S","E","L","E","C","T"," ","a"," ","F","R","O","M">>
        /\ HasSelectFrom(pureText) =>
               /\ pureSql # Null
               /\ MatchAt(toLowerCase(pureSql), 1, SelectSp)
               /\ MatchAt(toLowerCase(pureSql), Len(pureSql) - 3, From)
        /\ ~HasSelectFrom(pureText) => pureSql = Null

\* C4: for every text that holds a fenced block labelled sql, whatever its
\* interior (the empty one included) and whether or not an inline
\* SELECT ... FROM is there too, extractSql returns exactly the interior of
\* the first such block, without the fence markers.
C4_FencedInteriorReturned ==
    (purePc = "extracted" /\ pureText # Null /\ HasFencedBlock(pureText)) =>
        pureSql = FirstFencedInterior(pureText)

\* what holds of the fenced form: a non-empty interior is returned as it is,
\* an empty one gives the whole block, fence markers included
FencedInteriorUnlessEmpty ==
    (purePc = "extracted" /\ pureText # Null /\ HasFencedBlock(pureText)) =>
        IF FirstFencedInterior(pureText) # <<>>
        THEN pureSql = FirstFencedInterior(pureText)
        ELSE pureSql = FenceOpen \o FenceClose

\* the candidate is absent or holds no "select" in any letter case
LacksSelect(sql) == sql = Null \/ ~includes(toLowerCase(sql), Select)

\* the SQL-generation completion returned and did not refuse
PastExtraction(rec) ==
    rec.responseText # Null /\ ~includes(rec.responseText, Sentinel)

\* C5: in a non-refusing request, a candidate that is absent or lacks "select"
\* (any case) is never sent to the store and the response's data is empty; the
\* store runs a candidate only when it holds "select".
C5_OnlySelectIsExecuted ==
    \A r \in Requests :
        /\ req[r].calls.query > 0 =>
               PastExtraction(req[r]) /\ ~LacksSelect(req[r].generatedSql)
        /\ (PastExtraction(req[r]) /\ LacksSelect(req[r].generatedSql)) =>
               /\ req[r].calls.query = 0
               /\ req[r].data = <<>>
               /\ \A i \in 1..Len(req[r].responses) :
                      req[r].responses[i].status = 200 =>
                          req[r].responses[i].body.data = <<>>

\* a fenced statement without "select" was answered 200 without a query
C5_Witness ==
    \E r \in Requests :
        /\ req[r].generatedSql = <<"D", "R", "O", "P", " ", "x">>
        /\ req[r].pc = "done"
        /\ Len(req[r].responses) = 1
        /\ req[r].responses[1].status = 200
        /\ req[r].responses[1].body.data = <<>>
        /\ req[r].calls.query = 0

\* the store rejected the generated SQL: line 146 logged its error
QueryRejected(rec) ==
    \E i \in 1..Len(rec.logged) : rec.logged[i].tag = "SQL Error:"

\* C6: when the store rejects the generated SQL the request ends in one 500
\* response whose error is "Error executing query", never the store's own
\* message; no insight completion is asked for and no 200 is sent.
C6_QueryErrorIsGeneric ==
    \A r \in Requests :
        QueryRejected(req[r]) =>
            /\ req[r].pc = "done"
            /\ Sent(req[r], 500, [error |-> "Error executing query"])
            /\ \A i \in 1..Len(req[r].logged) :
                   req[r].logged[i].tag = "SQL Error:" =>
                       req[r].responses[1].body.error # req[r].logged[i].err
            /\ req[r].calls.insight = 0

\* the store rejected a query that was sent to it
C6_Witness ==
    \E r \in Requests :
        /\ QueryRejected(req[r])
        /\ req[r].calls.query = 1
        /\ req[r].pc = "done"

\* C7: getSchemaInfo returns the tables in the order the catalog listed them,
\* one entry per table, whatever the order the PRAGMA callbacks complete in.
C7_SchemaInCatalogOrder ==
    \A r \in Requests :
        req[r].pc = "sqlgen_wait" =>
            /\ Len(req[r].schemaInfo) = Len(req[r].tblNames)
            /\ \A i \in 1..Len(req[r].tblNames) :
                   req[r].schemaInfo[i].table = req[r].tblNames[i]

RECURSIVE RunFrom(_, _, _)
RunFrom(cat, tbl, k) ==
    IF k > Len(Statements) THEN [catalog |-> cat, tables |-> tbl]
    ELSE LET after == Execute(cat, tbl, Statements[k])
         IN  RunFrom(after.catalog, after.tables, k + 1)

\* the store after one whole run of initializeDatabase on a new file
AfterFirstStart == RunFrom(<<>>, EmptyTables, 1)

\* C8: seeding is idempotent: after any number of process starts, once
\* initializeDatabase has run through, each of the four tables holds exactly
\* the rows it held after the first start.
C8_SeedingIdempotent ==
    initPc = Len(Statements) =>
        \A t \in {Customers, Products, Orders, OrderItems} :
            tables[t] = AfterFirstStart.tables[t]

\* C9: suggestChartType is first-match-wins and case-sensitive: "trend" gives
\* line; else "compare" gives bar; else "percentage" or "proportion" gives pie;
\* every other text gives bar; so the chart type of a response is always one
\* of bar, line, pie.
C9_ChartTypePriority ==
    purePc = "charted" =>
        LET has(word) == pureText # Null /\ includes(pureText, word)
        IN  /\ has(Trend) => pureChart = "line"
            /\ (~has(Trend) /\ has(Compare)) => pureChart = "bar"
            /\ (~has(Trend) /\ ~has(Compare)
                   /\ (has(Percentage) \/ has(Proportion))) => pureChart = "pie"
            /\ (~has(Trend) /\ ~has(Compare)
                   /\ ~has(Percentage) /\ ~has(Proportion)) => pureChart = "bar"
            /\ pureChart \in {"bar", "line", "pie"}

\* a text with both "compare" and "trend", "compare" first, was typed line
C9_Witness ==
    /\ purePc = "charted"
    /\ pureText = Compare \o Trend
    /\ pureChart = "line"

\* every 200 response that is no refusal carries bar, line or pie
ResponseChartTypes ==
    \A r \in Requests :
        \A i \in 1..Len(req[r].responses) :
            (req[r].responses[i].status = 200 /\ ~Refused(req[r])) =>
                req[r].responses[i].body.chartType \in {"bar", "line", "pie"}

\* no request is answered twice
AtMostOneResponse == \A r \in Requests : Len(req[r].responses) <= 1

\* C10: if every store call calls back and every completion call returns or
\* throws, every request that arrived eventually reaches a terminal state with
\* exactly one response sent, whatever the store holds.
C10_EveryRequestAnswered ==
    \A r \in Requests :
        (req[r].pc # "idle") ~>
            (req[r].pc = "done" /\ Len(req[r].responses) = 1)

=============================================================================
